---------------------------- MODULE Spec2Model ----------------------------
(***************************************************************************)
(* Model of tools/binance/fetch_binance_1m.py (fetch_klines and its CSV    *)
(* helpers) and tools/binance/common/timeutils.py.                         *)
(*                                                                         *)
(* One process runs fetch_klines repeatedly against one CSV file.  The     *)
(* upstream (the Binance klines endpoint) is the environment: it answers   *)
(* a request with a network error, HTTP 429, another error status, an     *)
(* empty list or a page of records.  Two specifications are given.         *)
(*   Spec: one run, for any date, on a file that earlier runs may have     *)
(*     left (ResumeFiles); upstream answers with any list of records.      *)
(*   SpecWholeDay: up to MaxRuns runs, the first on a missing or empty     *)
(*     file; upstream holds every minute candle and answers with the run   *)
(*     of consecutive candles that starts at startTime.                    *)
(***************************************************************************)
EXTENDS Integers, Sequences, FiniteSets

(***************************************************************************)
(* Bounds of the model.  A day has DayMinutes minutes (1440 in the code,   *)
(* timedelta(days=1)), upstream answers with at most MaxPage records, and  *)
(* under SpecWholeDay the process is run at most MaxRuns times.            *)
(***************************************************************************)
DayMinutes == 3
MaxPage == 2
MaxRuns == 2
MaxFailures == 7

\* The limit parameter of a request.
MAX_LIMIT == 1500

\* timeutils._MINUTE_MS
_MINUTE_MS == 60000
\* BACKOFF_SECONDS and BACKOFF_CAP (floats with integral values)
BACKOFF_SECONDS == 1
BACKOFF_CAP == 60

\* Length of the modelled day in epoch milliseconds.
DayMs == DayMinutes * _MINUTE_MS

\* The --date arguments: 1969-12-31, 1970-01-01 and 1970-01-02 of the modelled
\* calendar, as days since the epoch.
Dates == {-1, 0, 1}

\* Python's None, and a value that is not None (Optional[...]).
None == <<>>
Some(x) == <<x>>
Val(opt) == opt[1]

Max(a, b) == IF a >= b THEN a ELSE b
Min(a, b) == IF a <= b THEN a ELSE b

Last(s) == s[Len(s)]

-----------------------------------------------------------------------------
(***************************************************************************)
(* timeutils                                                               *)
(***************************************************************************)

\* date_to_utc_range / build_minute_range: [midnight, midnight + one day).
date_to_utc_range(d) == [start_ms |-> d * DayMs, end_ms |-> d * DayMs + DayMs]

\* ms_to_iso8601: the text "%Y-%m-%dT%H:%M:%S.%fZ" of an epoch-ms value, kept
\* as its fields; the calendar date is kept as the day number since the epoch.
ms_to_iso8601(ms) ==
    LET seconds == ms \div 1000
        remainder == ms % 1000
        sod == seconds % 86400
    IN  [day    |-> seconds \div 86400,
         hour   |-> sod \div 3600,
         minute |-> (sod % 3600) \div 60,
         second |-> sod % 60,
         micro  |-> remainder * 1000]

\* iso8601_to_ms: int(dt.timestamp() * 1000); int() truncates towards zero.
\* (Binary rounding of the float product is not modelled; it cannot occur for
\* a text whose fraction is zero.)
iso8601_to_ms(value) ==
    LET secs == value.day * 86400 + value.hour * 3600
                  + value.minute * 60 + value.second
        whole == secs * 1000 + value.micro \div 1000
    IN  IF value.micro % 1000 # 0 /\ whole < 0 THEN whole + 1 ELSE whole

\* Mutant of ensure_minute_alignment: whole seconds pass.
ensure_second_alignment(ms_value) == ms_value % 1000 = 0

\* ensure_minute_alignment: TRUE when it returns, FALSE when it raises.
ensure_minute_alignment(ms_value) == ms_value % _MINUTE_MS = 0

\* Mutant of minute_open_from_close: the close is taken for the open.
minute_open_is_close(close_ms) == close_ms

\* minute_close_from_open / minute_open_from_close (alignment is checked by the
\* caller of these operators, as the functions check it before they return).
minute_close_from_open(open_ms) == open_ms + _MINUTE_MS
minute_open_from_close(close_ms) == close_ms - _MINUTE_MS

-----------------------------------------------------------------------------
(***************************************************************************)
(* The CSV file.  A row is the list of its cells; only the first cell, the *)
(* timestamp column, is inspected by the program.  A cell is either a      *)
(* literal text or the text of a timestamp (the record ms_to_iso8601       *)
(* yields); the five price columns of a row are kept as one value.         *)
(***************************************************************************)
HeaderRow == << [text |-> "timestamp"], [text |-> "open,high,low,close,volume"] >>

\* read_last_timestamp: the first cell of the last row that is not a header.
RECURSIVE LastDataRow(_, _)
LastDataRow(rows, i) ==
    IF i = 0 THEN None
    ELSE IF rows[i][1] # [text |-> "timestamp"] THEN Some(rows[i])
    ELSE LastDataRow(rows, i - 1)

\* Mutant of read_last_timestamp: the first data row is returned.
read_first_timestamp(f) ==
    IF ~f.exists \/ Len(f.rows) < 2 THEN None
    ELSE Some(f.rows[2][1])

read_last_timestamp(f) ==
    IF ~f.exists THEN None
    ELSE LET last_row == LastDataRow(f.rows, Len(f.rows))
         IN  IF last_row # None THEN Some(Val(last_row)[1]) ELSE None

\* Mutant of write_rows: the file is opened for writing, not for appending.
write_rows_truncate(f, rows) ==
    IF rows = <<>> THEN f
    ELSE [exists |-> TRUE, rows |-> <<HeaderRow>> \o rows]

\* Mutant of write_rows: the size of an existing file is not looked at.
write_rows_no_size_check(f, rows) ==
    IF rows = <<>> THEN f
    ELSE [exists |-> TRUE,
          rows   |-> f.rows \o (IF ~f.exists THEN <<HeaderRow>> ELSE <<>>) \o rows]

\* Mutant of write_rows: the header is written with every batch.
write_rows_header_always(f, rows) ==
    IF rows = <<>> THEN f
    ELSE [exists |-> TRUE, rows |-> f.rows \o <<HeaderRow>> \o rows]

\* write_rows: nothing for an empty list; otherwise the header when the file
\* is missing or has size 0, then the rows, appended.
write_rows(f, rows) ==
    IF rows = <<>> THEN f
    ELSE LET write_header == ~f.exists \/ f.rows = <<>>
         IN  [exists |-> TRUE,
              rows   |-> f.rows \o (IF write_header THEN <<HeaderRow>> ELSE <<>>) \o rows]

-----------------------------------------------------------------------------
(***************************************************************************)
(* fetch_klines                                                            *)
(***************************************************************************)
VARIABLES
    csv,            \* the file at out_path: [exists, rows]
    pc,             \* "idle" | "loop" (at the while test) | "await" (request sent) | "exit"
    date,           \* the --date argument of the current run
    start_open_ms,  \* the cursor
    end_close_ms,
    last_timestamp, \* the resume point read at the start of the run, or None
    last_close_ms,  \* the last accepted close, or None
    backoff,
    has_progress,
    params,         \* the parameters of the last request sent, or None
    last_open_ms,   \* the open time of the last record of the last page, or None
    outcome,        \* how the run ended: "none" while it runs
    runs,           \* number of runs started
    csv_at_start,   \* the file as the current run found it
    contiguous,     \* every page of the current run was a run of consecutive
                    \* minute candles that starts at the startTime of its request
    log,            \* the finished runs: <<[date, outcome], ...>>
    slept,          \* the argument of the last time.sleep of the current retries, or None
    failures,       \* network errors and 429s since the last response that was
                    \* neither (MaxFailures stands for MaxFailures or more)
    pages           \* non-empty pages the current run has processed

vars == << csv, pc, date, start_open_ms, end_close_ms, last_timestamp,
           last_close_ms, backoff, has_progress, params, last_open_ms, outcome,
           runs, csv_at_start, contiguous, log, slept, failures, pages >>

\* Python truth value of an Optional[int]: None and 0 are false.
Truthy(opt) == opt # None /\ Val(opt) # 0

\* Python truth value of an Optional[str]: None and "" are false.
TruthyStr(opt) == opt # None /\ Val(opt) # [text |-> ""]

\* A record of an upstream page: entry[0] is the open time, entry[1..5] the prices.
Candle(open_ms) == [open_time |-> open_ms, ohlcv |-> open_ms \div _MINUTE_MS]

\* Mutant of AfterWindow: the candle that closes at end_ms is dropped too.
AfterWindowGe(close_ms, end_ms) == close_ms >= end_ms

\* Line 104: the candle closes after the requested day.
AfterWindow(close_ms, end_ms) == close_ms > end_ms

\* Mutant of AlreadySeen: a close equal to the last accepted one passes.
AlreadySeenLt(lcm, close_ms) == Truthy(lcm) /\ close_ms < Val(lcm)

\* Line 106: the close is not above the last accepted one.
AlreadySeen(lcm, close_ms) == Truthy(lcm) /\ close_ms <= Val(lcm)

\* The for loop over a page (lines 100-119), from record i on.  ok is FALSE
\* when minute_close_from_open raised ValueError on some record.
RECURSIVE ProcessEntries(_, _, _, _, _)
ProcessEntries(data, i, rows, lcm, hp) ==
    IF i > Len(data) THEN [ok |-> TRUE, rows |-> rows, last_close_ms |-> lcm, has_progress |-> hp]
    ELSE LET open_ms == data[i].open_time
             close_ms == minute_close_from_open(open_ms)
         IN  IF ~ensure_minute_alignment(open_ms)
               THEN [ok |-> FALSE, rows |-> rows, last_close_ms |-> lcm, has_progress |-> hp]
             ELSE IF AfterWindow(close_ms, end_close_ms)
               THEN ProcessEntries(data, i + 1, rows, lcm, hp)
             ELSE IF AlreadySeen(lcm, close_ms)
               THEN ProcessEntries(data, i + 1, rows, lcm, hp)
             ELSE ProcessEntries(data, i + 1,
                                 Append(rows, << ms_to_iso8601(close_ms), data[i].ohlcv >>),
                                 Some(close_ms), TRUE)

\* Mutant of NextOpen: the cursor is not forced forward.
NextOpenNoFallback(last_open, cursor) == last_open + _MINUTE_MS

\* Mutant of NextOpen: a page that ends before the cursor leaves it in place.
NextOpenStay(last_open, cursor) == Max(last_open + _MINUTE_MS, cursor)

\* Mutant of NextOpen: the cursor steps over the minute after the page.
NextOpenSkip(last_open, cursor) ==
    LET next_open == last_open + 2 * _MINUTE_MS
    IN  IF next_open <= cursor THEN cursor + _MINUTE_MS ELSE next_open

\* Lines 124-128: the next cursor after a page.
NextOpen(last_open, cursor) ==
    LET next_open == last_open + _MINUTE_MS
    IN  IF next_open <= cursor THEN cursor + _MINUTE_MS ELSE next_open

\* A page that is a run of consecutive minute candles from startTime on.
Consecutive(data, startTime) ==
    \A i \in 1 .. Len(data) : data[i].open_time = startTime + (i - 1) * _MINUTE_MS

\* Mutant of PostLoop: the resume point is not looked at.
PostLoopAnyStart == IF ~has_progress THEN "no_progress" ELSE "ok"

\* Lines 130-131: what a run that leaves the loop reports.
PostLoop == IF ~has_progress /\ TruthyStr(last_timestamp) THEN "no_progress" ELSE "ok"

\* The locals of fetch_klines before a run, and the bookkeeping of the model.
InitLocals ==
    /\ pc = "idle"
    /\ date = 0
    /\ start_open_ms = 0
    /\ end_close_ms = 0
    /\ last_timestamp = None
    /\ last_close_ms = None
    /\ backoff = BACKOFF_SECONDS
    /\ has_progress = FALSE
    /\ params = None
    /\ last_open_ms = None
    /\ outcome = "none"
    /\ runs = 0
    /\ csv_at_start = csv
    /\ contiguous = TRUE
    /\ log = <<>>
    /\ slept = None
    /\ failures = 0
    /\ pages = 0

\* The file is missing or empty.
NoFile == { [exists |-> FALSE, rows |-> <<>>], [exists |-> TRUE, rows |-> <<>>] }

Init ==
    /\ csv \in NoFile
    /\ InitLocals

\* Lines 51-65: a run starts; ValueError from the resume point ends it.
StartRun(d) ==
    /\ pc \in {"idle", "exit"}
    /\ LET minute_range == date_to_utc_range(d)
           lt == read_last_timestamp(csv)
           parses == lt # None /\ DOMAIN Val(lt) = DOMAIN ms_to_iso8601(0)
           ms == iso8601_to_ms(Val(lt))
       IN  /\ runs' = runs + 1
           /\ date' = d
           /\ csv_at_start' = csv
           /\ backoff' = BACKOFF_SECONDS
           /\ has_progress' = FALSE
           /\ params' = None
           /\ last_open_ms' = None
           /\ contiguous' = TRUE
           /\ slept' = None
           /\ failures' = 0
           /\ pages' = 0
           /\ IF ~TruthyStr(lt)
                THEN /\ last_timestamp' = lt
                     /\ last_close_ms' = None
                     /\ start_open_ms' = minute_range.start_ms
                     /\ end_close_ms' = minute_range.end_ms
                     /\ pc' = "loop"
                     /\ outcome' = "none"
                     /\ log' = log
              ELSE IF ~parses \/ ~ensure_minute_alignment(ms)
                THEN /\ last_timestamp' = None
                     /\ last_close_ms' = None
                     /\ start_open_ms' = 0
                     /\ end_close_ms' = 0
                     /\ pc' = "exit"
                     /\ outcome' = "ValueError"
                     /\ log' = Append(log, [date |-> d, outcome |-> "ValueError"])
              ELSE /\ last_timestamp' = lt
                   /\ last_close_ms' = Some(ms)
                   /\ start_open_ms' = Max(minute_range.start_ms, minute_open_from_close(ms))
                   /\ end_close_ms' = minute_range.end_ms
                   /\ pc' = "loop"
                   /\ outcome' = "none"
                   /\ log' = log
    /\ UNCHANGED csv

\* The run ends with the given outcome: the process is gone and with it the
\* locals of fetch_klines; the file stays.
Exit(how) ==
    /\ pc' = "exit"
    /\ outcome' = how
    /\ log' = Append(log, [date |-> date, outcome |-> how])
    /\ start_open_ms' = 0
    /\ end_close_ms' = 0
    /\ last_timestamp' = None
    /\ last_close_ms' = None
    /\ backoff' = BACKOFF_SECONDS
    /\ has_progress' = FALSE
    /\ params' = None
    /\ last_open_ms' = None
    /\ slept' = None
    /\ failures' = 0
    /\ pages' = 0

\* Line 67 false: the loop is left, lines 130-131.
LeaveLoop ==
    /\ pc = "loop"
    /\ ~(start_open_ms < end_close_ms)
    /\ Exit(PostLoop)
    /\ UNCHANGED << csv, date, runs, csv_at_start, contiguous >>

\* Lines 67-77: the request is sent.
SendRequest ==
    /\ pc = "loop"
    /\ start_open_ms < end_close_ms
    /\ params' = Some([startTime |-> start_open_ms, endTime |-> end_close_ms, limit |-> MAX_LIMIT])
    /\ pc' = "await"
    /\ UNCHANGED << csv, date, start_open_ms, end_close_ms, last_timestamp,
                    last_close_ms, backoff, has_progress, last_open_ms, outcome,
                    runs, csv_at_start, contiguous, log, slept, failures, pages >>

\* Mutant of NetworkError: the failed request is given up and the cursor moves on.
NetworkErrorAdvances ==
    /\ pc = "await"
    /\ slept' = Some(backoff)
    /\ backoff' = Min(backoff * 2, BACKOFF_CAP)
    /\ failures' = Min(failures + 1, MaxFailures)
    /\ start_open_ms' = start_open_ms + _MINUTE_MS
    /\ pc' = "loop"
    /\ UNCHANGED << csv, date, end_close_ms, last_timestamp,
                    last_close_ms, has_progress, params, last_open_ms, outcome,
                    runs, csv_at_start, contiguous, log, pages >>

\* Lines 78-82: requests.RequestException; sleep, double the backoff, retry.
NetworkError ==
    /\ pc = "await"
    /\ slept' = Some(backoff)
    /\ backoff' = Min(backoff * 2, BACKOFF_CAP)
    /\ failures' = Min(failures + 1, MaxFailures)
    /\ pc' = "loop"
    /\ UNCHANGED << csv, date, start_open_ms, end_close_ms, last_timestamp,
                    last_close_ms, has_progress, params, last_open_ms, outcome,
                    runs, csv_at_start, contiguous, log, pages >>

\* Mutant of RateLimited: the backoff is doubled before the sleep.
RateLimitedDoublesFirst ==
    /\ pc = "await"
    /\ slept' = Some(Min(backoff * 2, BACKOFF_CAP))
    /\ backoff' = Min(backoff * 2, BACKOFF_CAP)
    /\ failures' = Min(failures + 1, MaxFailures)
    /\ pc' = "loop"
    /\ UNCHANGED << csv, date, start_open_ms, end_close_ms, last_timestamp,
                    last_close_ms, has_progress, params, last_open_ms, outcome,
                    runs, csv_at_start, contiguous, log, pages >>

\* Lines 84-88: HTTP 429; sleep, double the backoff, retry.
RateLimited ==
    /\ pc = "await"
    /\ slept' = Some(backoff)
    /\ backoff' = Min(backoff * 2, BACKOFF_CAP)
    /\ failures' = Min(failures + 1, MaxFailures)
    /\ pc' = "loop"
    /\ UNCHANGED << csv, date, start_open_ms, end_close_ms, last_timestamp,
                    last_close_ms, has_progress, params, last_open_ms, outcome,
                    runs, csv_at_start, contiguous, log, pages >>

\* Mutant of HttpError: any error status is retried like a 429.
HttpErrorRetried ==
    /\ pc = "await"
    /\ slept' = Some(backoff)
    /\ backoff' = Min(backoff * 2, BACKOFF_CAP)
    /\ failures' = Min(failures + 1, MaxFailures)
    /\ pc' = "loop"
    /\ UNCHANGED << csv, date, start_open_ms, end_close_ms, last_timestamp,
                    last_close_ms, has_progress, params, last_open_ms, outcome,
                    runs, csv_at_start, contiguous, log, pages >>

\* Lines 90-93: raise_for_status raises; SystemExit.
HttpError ==
    /\ pc = "await"
    /\ Exit("fatal")
    /\ UNCHANGED << csv, date, runs, csv_at_start, contiguous >>

\* Lines 95-98: an empty list; the backoff is reset and the loop is left.
EmptyPage ==
    /\ pc = "await"
    /\ Exit(PostLoop)
    /\ UNCHANGED << csv, date, runs, csv_at_start, contiguous >>

\* Lines 95-128: a page of records.
ReceivePage(data) ==
    /\ pc = "await"
    /\ data # <<>>
    /\ LET r == ProcessEntries(data, 1, <<>>, last_close_ms, has_progress)
       IN  IF r.ok
             THEN /\ backoff' = BACKOFF_SECONDS
                  /\ slept' = None
                  /\ failures' = 0
                  /\ pages' = pages + 1
                  /\ last_close_ms' = r.last_close_ms
                  /\ has_progress' = r.has_progress
                  /\ csv' = write_rows(csv, r.rows)
                  /\ last_open_ms' = Some(Last(data).open_time)
                  /\ start_open_ms' = NextOpen(Last(data).open_time, start_open_ms)
                  /\ pc' = "loop"
                  /\ UNCHANGED << end_close_ms, last_timestamp, params, outcome, log >>
             ELSE /\ Exit("ValueError")
                  /\ UNCHANGED csv
    /\ contiguous' = (contiguous /\ Consecutive(data, Val(params).startTime))
    /\ UNCHANGED << date, runs, csv_at_start >>

-----------------------------------------------------------------------------
(***************************************************************************)
(* Upstream                                                                *)
(***************************************************************************)

\* Open times an arbitrary upstream may put in a record of its answer: the
\* minute asked for, the minute before it (a stale or overlapping record; at
\* the start of the window a candle of the day before), the minute after it
\* (a missing candle; at the end of the window a candle that closes after
\* the day), and a value off the minute grid.
OpenTimes ==
    { start_open_ms - _MINUTE_MS, start_open_ms, start_open_ms + _MINUTE_MS,
      start_open_ms + _MINUTE_MS \div 2 }

RECURSIVE SeqsUpTo(_, _)
SeqsUpTo(S, n) ==
    IF n = 0 THEN { <<>> }
    ELSE LET shorter == SeqsUpTo(S, n - 1)
         IN  shorter \cup { Append(s, x) : s \in { t \in shorter : Len(t) = n - 1 }, x \in S }

\* A run that accepts only closes above the last accepted one appends at most
\* the header and one row per close time in [start_ms, end_ms]; the model
\* follows a run no further than that many appended lines.
MaxAppended == DayMinutes + 2

\* The page whose records have the given open times.
PageOf(opens) == [i \in 1 .. Len(opens) |-> Candle(opens[i])]

\* Any page of at most MaxPage records.
AnyPage == \E data \in SeqsUpTo(OpenTimes, MaxPage) :
              /\ ReceivePage(PageOf(data))
              /\ Len(csv'.rows) - Len(csv_at_start.rows) <= MaxAppended

\* The upstream that holds every minute candle: the first n candles with
\* startTime <= open time <= endTime, n up to the limit of the request.
UpstreamPage(p, n) ==
    LET available == (p.endTime - p.startTime) \div _MINUTE_MS + 1
    IN  [i \in 1 .. Min(Min(n, p.limit), available) |->
            Candle(p.startTime + (i - 1) * _MINUTE_MS)]

WholeDayPage == \E n \in 1 .. MaxPage :
                   /\ pc = "await"
                   /\ ReceivePage(UpstreamPage(Val(params), n))

\* The row of the candle that closes at close_ms.
CandleRow(close_ms) ==
    << ms_to_iso8601(close_ms), Candle(minute_open_from_close(close_ms)).ohlcv >>

\* The file with the rows of the first k minutes of day d, as write_rows
\* leaves it.
DayFile(d, k) ==
    write_rows([exists |-> FALSE, rows |-> <<>>],
               [i \in 1 .. k |-> CandleRow(date_to_utc_range(d).start_ms + i * _MINUTE_MS)])

\* Files a run may find: none, or what runs against the whole-day upstream
\* leave for some date, complete or cut short by a fatal error.  Each of
\* them is the file of a reachable state of SpecWholeDay.
ResumeFiles == NoFile \cup { DayFile(d, k) : d \in Dates, k \in 1 .. DayMinutes }

InitResume ==
    /\ csv \in ResumeFiles
    /\ InitLocals

\* The one run of Spec.
Start == \E d \in Dates : pc = "idle" /\ StartRun(d)

\* A run or a rerun of SpecWholeDay.
Run == \E d \in Dates : runs < MaxRuns /\ StartRun(d)

Next ==
    \/ Start
    \/ LeaveLoop
    \/ SendRequest
    \/ NetworkError
    \/ RateLimited
    \/ HttpError
    \/ EmptyPage
    \/ AnyPage

Spec == InitResume /\ [][Next]_vars

NextWholeDay ==
    \/ Run
    \/ LeaveLoop
    \/ SendRequest
    \/ NetworkError
    \/ RateLimited
    \/ HttpError
    \/ WholeDayPage

SpecWholeDay == Init /\ [][NextWholeDay]_vars

-----------------------------------------------------------------------------
TypeOK ==
    /\ pc \in {"idle", "loop", "await", "exit"}
    /\ csv.exists \in BOOLEAN
    /\ backoff \in BACKOFF_SECONDS .. BACKOFF_CAP
    /\ runs \in 0 .. MaxRuns
    /\ csv.exists \/ csv.rows = <<>>

-----------------------------------------------------------------------------
(***************************************************************************)
(* Vocabulary of the properties                                            *)
(***************************************************************************)

\* The data rows of a file, and the close time a data row stands for.
IsDataRow(row) == row[1] # [text |-> "timestamp"]
DataRows(f) == SelectSeq(f.rows, IsDataRow)
RowMs(row) == iso8601_to_ms(row[1])

\* The window of the current run.
Window == date_to_utc_range(date)

\* The lines the current run has appended so far, and its data rows.
AppendedLines == SubSeq(csv.rows, Len(csv_at_start.rows) + 1, Len(csv.rows))
AppendedRows == SelectSeq(AppendedLines, IsDataRow)

\* The resume point of the current run and its close time.
HasResumePoint == read_last_timestamp(csv_at_start) # None
ResumeClose == iso8601_to_ms(Val(read_last_timestamp(csv_at_start)))

\* The current run has left the loop (no fatal error, no ValueError).
Completed == pc = "exit" /\ outcome \in {"ok", "no_progress"}

StrictlyIncreasing(rows) ==
    \A i \in 1 .. Len(rows) - 1 : RowMs(rows[i]) < RowMs(rows[i + 1])

MinuteStepped(rows) ==
    \A i \in 1 .. Len(rows) - 1 : RowMs(rows[i + 1]) = RowMs(rows[i]) + _MINUTE_MS

-----------------------------------------------------------------------------
\* C1: a run on an empty or missing file against the whole-day upstream that
\* leaves the loop ends with one data row per minute of the day, the first
\* at start_ms + 60000 and the last at end_ms, whatever the page sizes were.
C1_FullDay ==
    (Completed /\ csv_at_start.rows = <<>>) =>
        LET rows == DataRows(csv)
        IN  /\ Len(rows) = DayMinutes
            /\ RowMs(rows[1]) = Window.start_ms + _MINUTE_MS
            /\ RowMs(rows[Len(rows)]) = Window.end_ms
            /\ \A i \in 1 .. Len(rows) : RowMs(rows[i]) = Window.start_ms + i * _MINUTE_MS

C1_Witness ==
    /\ Completed
    /\ csv_at_start.rows = <<>>
    /\ Len(DataRows(csv)) = DayMinutes
    /\ date = 1

\* C2: when the file ends at a close time C with start_ms <= C < end_ms, the
\* rows a run against the whole-day upstream appends all close after C, and a
\* run that leaves the loop has appended exactly the rows of C + 60000, ...,
\* end_ms.
C2_Remaining ==
    (HasResumePoint /\ pc # "idle"
        /\ Window.start_ms <= ResumeClose /\ ResumeClose < Window.end_ms) =>
        /\ \A i \in 1 .. Len(AppendedLines) : RowMs(AppendedLines[i]) > ResumeClose
        /\ Completed =>
             AppendedLines =
                [i \in 1 .. (Window.end_ms - ResumeClose) \div _MINUTE_MS |->
                    CandleRow(ResumeClose + i * _MINUTE_MS)]

C2_Witness ==
    /\ Completed
    /\ HasResumePoint
    /\ ResumeClose = Window.start_ms + _MINUTE_MS
    /\ Len(AppendedLines) = DayMinutes - 1

\* C3: a run that leaves the loop right after a run for the same date that
\* left the loop leaves the file as it found it.
C3_Idempotent ==
    (Completed /\ Len(log) >= 2
        /\ log[Len(log) - 1].date = date
        /\ log[Len(log) - 1].outcome \in {"ok", "no_progress"}) =>
        csv = csv_at_start

\* C4: the timestamps of the data rows of the file are strictly increasing
\* in every reachable state, whatever pages upstream sends.
C4_NoDuplicates == StrictlyIncreasing(DataRows(csv))

\* C5: when the file ends at close time C at the start of a run, every candle
\* the run accepts has an open time of at least openFromClose(C) = C - 60000.
C5_ResumeCorrect ==
    (HasResumePoint /\ pc # "idle") =>
        \A i \in 1 .. Len(AppendedRows) :
            minute_open_from_close(RowMs(AppendedRows[i])) >= minute_open_from_close(ResumeClose)

\* C6 as stated: whatever pages upstream sends, each row a run appends is
\* exactly 60000 ms after the row the run appended before it.
C6_MinuteStepped == MinuteStepped(AppendedRows)

\* C6 as amended: when every page of the run is a run of consecutive minute
\* candles that starts at the startTime of its request, each row the run
\* appends is exactly 60000 ms after the row the run appended before it.
C6_SteppedIfContiguous == contiguous => MinuteStepped(AppendedRows)

C6_Witness ==
    /\ contiguous
    /\ Len(AppendedRows) >= 2
    /\ HasResumePoint

\* A step in which a page was processed to its end: the only step from
\* "await" back to the while test that leaves the backoff at its base.
PageStep == pc = "await" /\ pc' = "loop" /\ backoff' = BACKOFF_SECONDS

\* C7: after a page the cursor is (open time of the page's last record +
\* 60000) when that exceeds the cursor, and (cursor + 60000) otherwise; so it
\* grows by at least one minute with every page.
C7_CursorProgress ==
    [][PageStep =>
         /\ start_open_ms' =
              (IF Val(last_open_ms') + 60000 > start_open_ms
                 THEN Val(last_open_ms') + 60000
                 ELSE start_open_ms + 60000)
         /\ start_open_ms' >= start_open_ms + 60000]_vars

\* A page whose last record did not advance the cursor has been processed.
C7_Witness ==
    /\ pc = "loop"
    /\ last_open_ms # None
    /\ Val(last_open_ms) + 60000 < start_open_ms
    /\ start_open_ms < end_close_ms

\* C8: a network error or an HTTP 429 does not end the run and leaves the
\* cursor, the last accepted close and the file as they were, and the request
\* sent next has the parameters of the request that failed.
C8_TransientFrame ==
    [][/\ (NetworkError \/ RateLimited) =>
            /\ pc' = "loop"
            /\ outcome' = "none"
            /\ UNCHANGED << start_open_ms, end_close_ms, last_close_ms, csv >>
       /\ (pc = "loop" /\ backoff > BACKOFF_SECONDS /\ pc' = "await") =>
            params' = params]_vars

\* A request was sent again after the backoff had reached its cap.
C8_Witness ==
    /\ pc = "await"
    /\ backoff = BACKOFF_CAP
    /\ Len(AppendedRows) > 0

\* C9: an error status other than 429 ends the run at once: the file is left
\* as it is, and from then on the run sends no request and writes nothing.
C9_FatalAbort ==
    /\ [][/\ HttpError => (pc' = "exit" /\ outcome' = "fatal" /\ csv' = csv)
          /\ (pc = "exit" /\ outcome = "fatal") => (pc' # "await" /\ csv' = csv)]_vars
    /\ []((pc = "exit" /\ outcome = "fatal") => ~ENABLED (SendRequest \/ AnyPage))

\* A run was aborted after it had appended rows.
C9_Witness ==
    /\ pc = "exit"
    /\ outcome = "fatal"
    /\ Len(AppendedRows) > 0

\* Every run before the current one was for the same date and was aborted by
\* a fatal error.
OnlyAbortedBefore ==
    /\ Len(log) >= 2
    /\ \A i \in 1 .. Len(log) - 1 : log[i].date = date /\ log[i].outcome = "fatal"

\* C10: when runs for one date are aborted by fatal errors and a later run for
\* that date leaves the loop, the file is the file of one uninterrupted run:
\* one header, then one row per minute of the day.
C10_SafeResume ==
    (Completed /\ OnlyAbortedBefore) => csv = DayFile(date, DayMinutes)

\* The aborted run had appended rows, and the run after it finished the day.
C10_Witness ==
    /\ Completed
    /\ OnlyAbortedBefore
    /\ Len(csv_at_start.rows) > 1
    /\ csv # csv_at_start

\* The file f is the beginning of the file g.
IsPrefix(f, g) ==
    /\ f.exists => g.exists
    /\ Len(f.rows) <= Len(g.rows)
    /\ SubSeq(g.rows, 1, Len(f.rows)) = f.rows

\* C11: in every step of every run, whatever the response (a page, a network
\* error, a 429, an error status, a record that raises ValueError), the file
\* before the step is the beginning of the file after it: no line is
\* rewritten, reordered or removed.
C11_AppendOnly == [][IsPrefix(csv, csv')]_vars

\* A run that found rows in the file appended to them and was then ended by
\* a ValueError.
C11_Witness ==
    /\ pc = "exit"
    /\ outcome = "ValueError"
    /\ Len(csv_at_start.rows) > 1
    /\ Len(csv.rows) > Len(csv_at_start.rows)

\* C12: whatever pages upstream sends and whatever the file held, every row
\* the run has appended stands for a candle whose open time lies in
\* [start_ms, end_ms) of the window and whose close is its open + 60000.
C12_InWindow ==
    \A i \in 1 .. Len(AppendedRows) :
        LET close_ms == RowMs(AppendedRows[i])
            open_ms == minute_open_from_close(close_ms)
        IN  /\ close_ms = open_ms + 60000
            /\ Window.start_ms <= open_ms
            /\ open_ms < Window.end_ms

\* Some open time of the page is off the minute grid.
Misaligned(opens) == \E i \in 1 .. Len(opens) : opens[i] % 60000 # 0

\* C13: the timestamp of every row a run has appended is a multiple of
\* 60000 ms; minute_close_from_open raises on a record of a page exactly when
\* the page has an open time that is not a multiple of 60000; and the one
\* step such a page allows ends the run with ValueError and writes nothing of
\* the page.
C13_Aligned ==
    /\ [](\A i \in 1 .. Len(AppendedRows) : RowMs(AppendedRows[i]) % 60000 = 0)
    /\ [](pc = "await" =>
            \A opens \in SeqsUpTo(OpenTimes, MaxPage) :
                ProcessEntries(PageOf(opens), 1, <<>>, last_close_ms, has_progress).ok
                    <=> ~Misaligned(opens))
    /\ [](pc = "await" =>
            \A opens \in SeqsUpTo(OpenTimes, MaxPage) \ { <<>> } :
                Misaligned(opens) =>
                    /\ ENABLED ReceivePage(PageOf(opens))
                    /\ ~ENABLED (/\ ReceivePage(PageOf(opens))
                                 /\ ~(pc' = "exit" /\ outcome' = "ValueError" /\ csv' = csv)))

\* A run that had written every row of the day was ended by a page with a
\* record off the minute grid.
C13_Witness ==
    /\ pc = "exit"
    /\ outcome = "ValueError"
    /\ csv_at_start.rows = <<>>
    /\ Len(AppendedRows) = DayMinutes

\* The run of Spec with the scheduling of the program: a sequential program
\* reaches its next statement (LeaveLoop, SendRequest), and network errors
\* and 429s do not recur forever: a request that is sent again and again is
\* in the end answered by something else.
SpecFair ==
    /\ Spec
    /\ WF_vars(LeaveLoop)
    /\ WF_vars(SendRequest)
    /\ SF_vars(HttpError \/ EmptyPage \/ AnyPage)

\* The cursor the current run started with (lines 52-61).
InitialCursor ==
    IF TruthyStr(last_timestamp)
      THEN Max(Window.start_ms, minute_open_from_close(iso8601_to_ms(Val(last_timestamp))))
      ELSE Window.start_ms

\* C14: when network errors and 429s do not recur forever, a run that has
\* entered the loop ends; and the number of non-empty pages a run has
\* processed is at most the number of minutes from its first cursor to the
\* end of the window.
C14_Terminates ==
    /\ (pc \in {"loop", "await"}) ~> (pc = "exit")
    /\ [](pc \in {"loop", "await"} =>
            pages <= Max(0, (end_close_ms - InitialCursor) \div _MINUTE_MS))

\* A run whose backoff had reached the cap has processed one page per minute
\* of the window and is at the while test with the cursor at the end.
C14_Witness ==
    /\ pc = "loop"
    /\ pages = DayMinutes
    /\ start_open_ms = end_close_ms
    /\ csv_at_start.rows = <<>>

RECURSIVE Pow2(_)
Pow2(n) == IF n = 0 THEN 1 ELSE 2 * Pow2(n - 1)

\* C15: the backoff is always within [1, 60]; the k-th network error or 429
\* in a row (in any mix) sleeps min(2^(k-1), 60) seconds; and a page resets
\* the backoff to 1, so that the failure after it sleeps 1 second again.
\* (failures = MaxFailures stands for MaxFailures or more failures in a row,
\* all of which sleep 60 seconds, as 2^(MaxFailures-1) >= 60.)
C15_Backoff ==
    /\ [](backoff >= 1 /\ backoff <= 60)
    /\ [][(NetworkError \/ RateLimited) =>
            /\ failures' = Min(failures + 1, MaxFailures)
            /\ slept' = Some(Min(Pow2(failures' - 1), 60))]_vars
    /\ [][(pc = "await" /\ pages' = pages + 1) =>
            (failures' = 0 /\ backoff' = 1)]_vars
    /\ [][(failures = 0 /\ (NetworkError \/ RateLimited)) => slept' = Some(1)]_vars

\* After a page the retries have climbed from 1 second to the cap again.
C15_Witness ==
    /\ pc = "loop"
    /\ pages > 0
    /\ failures = MaxFailures
    /\ slept = Some(60)

\* The cursor a run is to start with: the open time of the candle of the
\* last data row, but not before the window; the start of the window when
\* the file has no data row.
ExpectedCursor ==
    IF HasResumePoint THEN Max(Window.start_ms, ResumeClose - 60000)
    ELSE Window.start_ms

\* No page has been processed yet: a request in flight is the first request
\* of the run, or that request sent again.
BeforeFirstPage == pc \in {"loop", "await"} /\ pages = 0

\* C16: the first request of a run has startTime = max(start_ms, C - 60000)
\* when the file ends at close time C and startTime = start_ms when it has no
\* data row; until the first page the last accepted close is C, or None when
\* there is no data row; and a run whose first cursor is not below end_ms
\* sends no request and leaves the file as it is.
C16_Initialisation ==
    /\ []((BeforeFirstPage /\ pc = "await") => Val(params).startTime = ExpectedCursor)
    /\ [](BeforeFirstPage =>
            /\ start_open_ms = ExpectedCursor
            /\ last_close_ms = (IF HasResumePoint THEN Some(ResumeClose) ELSE None))
    /\ []((pc # "idle" /\ ExpectedCursor >= Window.end_ms) =>
            (pc # "await" /\ params = None /\ csv = csv_at_start))
    /\ [][(pc = "loop" /\ ExpectedCursor >= Window.end_ms) =>
            (pc' = "exit" /\ csv' = csv)]_vars

\* The first request of a run that resumes inside the window has been sent.
C16_Witness ==
    /\ BeforeFirstPage
    /\ pc = "await"
    /\ HasResumePoint
    /\ Val(params).startTime = ResumeClose - 60000
    /\ Val(params).startTime > Window.start_ms

\* Lists of rows handed to write_rows: the first k candles of day 0.
RowLists == { [i \in 1 .. k |-> CandleRow(i * _MINUTE_MS)] : k \in 1 .. MaxPage }

\* C17: write_rows with no rows leaves the file as it is, missing if it was
\* missing; write_rows with rows appends the header when the file is missing
\* or empty and nothing otherwise, and then the rows in their order; so in
\* every state of a run the file is empty or is one header followed by data
\* rows only, and a step that writes leaves the last accepted row as the last
\* line.
C17_HeaderOnce ==
    /\ [](\A f \in ResumeFiles : write_rows(f, <<>>) = f)
    /\ [](\A f \in ResumeFiles : \A rows \in RowLists :
            LET g == write_rows(f, rows)
                n == Len(g.rows) - Len(rows)
            IN  /\ g.exists
                /\ SubSeq(g.rows, n + 1, Len(g.rows)) = rows
                /\ IF f.rows = <<>> THEN n = 1 /\ g.rows[1] = HeaderRow
                   ELSE n = Len(f.rows) /\ SubSeq(g.rows, 1, n) = f.rows)
    /\ [](csv.rows # <<>> =>
            /\ csv.rows[1] = HeaderRow
            /\ \A i \in 2 .. Len(csv.rows) : IsDataRow(csv.rows[i]))
    /\ [][csv' # csv =>
            Last(csv'.rows) = << ms_to_iso8601(Val(last_close_ms')),
                                 Candle(Val(last_close_ms') - 60000).ohlcv >>]_vars
    /\ [][Len(csv'.rows) = Len(csv.rows) => csv' = csv]_vars

\* A run on a missing or empty file has processed a page that wrote the
\* header and one row, and a page of which no record was accepted.
C17_Witness ==
    /\ pc = "loop"
    /\ pages >= 2
    /\ csv_at_start.rows = <<>>
    /\ csv_at_start.exists
    /\ Len(csv.rows) = 2

\* First cells of a last row that is no resume point the program could have
\* written: a text that strptime rejects, the empty text, and the timestamp
\* of a time half a minute off the minute grid.
BadCells == { [text |-> "garbage"], [text |-> ""],
              ms_to_iso8601(_MINUTE_MS + _MINUTE_MS \div 2) }

\* A file of the program to which such a row was added by other hands.
BadFiles ==
    { [exists |-> TRUE, rows |-> Append(DayFile(0, 1).rows, << cell, 0 >>)] : cell \in BadCells }

InitAnyFile ==
    /\ csv \in ResumeFiles \cup BadFiles
    /\ InitLocals

\* The one run of Spec, on a file that may end in such a row.
SpecAnyFile == InitAnyFile /\ [][Next]_vars

\* The last data row of the file the run found has a first cell that is not
\* the text of a timestamp, or is the text of a time off the minute grid.
ResumeParses ==
    DOMAIN Val(read_last_timestamp(csv_at_start)) = DOMAIN ms_to_iso8601(0)
BadResumePoint ==
    /\ HasResumePoint
    /\ (~ResumeParses \/ ResumeClose % 60000 # 0)

\* C18: a run that finds a resume point that does not parse or is not a
\* multiple of 60000 ms ends with ValueError before it sends a request, the
\* file is left as it was, and nothing is sent or written afterwards.
C18_BadResumeAborts ==
    /\ []((pc # "idle" /\ BadResumePoint) =>
            (pc = "exit" /\ outcome = "ValueError" /\ csv = csv_at_start))
    /\ []((pc = "exit" /\ outcome = "ValueError") => ~ENABLED (SendRequest \/ AnyPage))
    /\ [][BadResumePoint => (pc' # "await" /\ csv' = csv)]_vars

\* C19: a run ends with "no new data fetched" exactly when it leaves the
\* loop (no SystemExit, no ValueError), the file had a last data row when it
\* started, and it accepted no record; has_progress is TRUE exactly when the
\* run has appended a row, and a run that ended so left the file as it was.
C19_NoProgress ==
    /\ [][(pc \in {"loop", "await"} /\ pc' = "exit") =>
            (outcome' = "no_progress" <=>
                (outcome' \in {"ok", "no_progress"} /\ HasResumePoint /\ ~has_progress))]_vars
    /\ [](pc \in {"loop", "await"} => (has_progress <=> AppendedRows # <<>>))
    /\ [](pc = "exit" =>
            (outcome = "no_progress" <=> (Completed /\ HasResumePoint /\ AppendedRows = <<>>)))
    /\ []((pc = "exit" /\ outcome = "no_progress") => csv = csv_at_start)

\* A run for a day whose rows are all in the file has sent its request, got
\* nothing new and left the loop.
C19_Witness ==
    /\ pc = "exit"
    /\ outcome = "no_progress"
    /\ HasResumePoint
    /\ ResumeClose = Window.end_ms

\* C20: whenever a request is in flight, last_close_ms is None exactly when
\* the file has no data row, and is otherwise the time of the last data row
\* of the file: what a run started at that moment would read.
C20_CursorAgrees ==
    pc = "await" =>
        LET rows == DataRows(csv)
        IN  /\ last_close_ms = None <=> rows = <<>>
            /\ rows # <<>> => Val(last_close_ms) = RowMs(rows[Len(rows)])

\* A run that resumed has accepted rows and has sent a further request.
C20_Witness ==
    /\ pc = "await"
    /\ pages > 0
    /\ HasResumePoint
    /\ last_close_ms # None
    /\ Val(last_close_ms) > ResumeClose
    /\ failures > 0

=============================================================================
